---- MODULE Spec2Model ----
\* Session coordinator of the coin-collection game server: GameManager
\* (server/gameManager.js, the current revision at src/unnamed/part_003
\* lines 650-1039) driven by the socket handlers of the server entry point
\* (src/unnamed/part_005).  One action per socket handler and per timer
\* callback; every action is one run-to-completion turn of the event loop.
EXTENDS Integers, Sequences, FiniteSets, TLC

\* ---------------------------------------------------------------- bounds
NumConns == 4            \* socket ids that may be connected at once
MaxLeak == 1             \* overwritten, never cleared interval handles kept per kind
MaxResets == 1           \* pending one-shot reset timeouts kept at once
MaxPayouts == 1          \* payout calls kept in flight at once
MaxRanked == 4           \* players of a round whose ranking is computed
MaxScore == 5            \* coins one ranked player has collected
MaxPaid == 4             \* players of a round whose payout is followed
MaxCoins == 2            \* coins one player of such a round has collected

\* ------------------------------------------------- configuration values
maxPlayers == 3          \* MAX_PLAYERS
lobbyTimerSeconds == 1   \* LOBBY_TIMER_SECONDS
gameDurationSeconds == 1 \* GAME_DURATION_SECONDS
totalPennies == 2        \* TOTAL_PENNIES
MinWalletLength == 32    \* walletAddress.length < 32
rewardPoolPerGame == 50000000 \* REWARD_POOL_PER_GAME, 0.05 SOL, in lamports
feeReserve == 10000000   \* FEE_RESERVE_SOL, 0.01 SOL, in lamports

Conns == 1..NumConns

\* A wallet address string is modelled by <<name, length>>; <<0, 0>> is the
\* missing (undefined / empty) address.
NoWallet == <<0, 0>>
WalletLength(w) == w[2]

\* join_lobby intents: every connection with a wallet of its own, the third
\* one of exactly the minimum length
OwnJoins == {<<1, <<1, 44>>>>, <<2, <<2, 44>>>>, <<3, <<3, 32>>>>, <<4, <<5, 44>>>>}
\* and connection 2 also with the wallet of connection 1, connection 1 with an
\* address that is too short, connection 3 with none
JoinInputs == OwnJoins \cup {<<2, <<1, 44>>>>, <<1, <<4, 31>>>>, <<3, NoWallet>>}

\* an intent sent without a payload: data is undefined
NoData == <<0, -1>>
\* a walletAddress that is no string: an object with a length of 32 and
\* nothing else (no slice method); names below 0 stand for such values
NotAString == <<-1, 32>>
IsString(w) == w[1] >= 0

\* the connections that ask to spectate
SpectatorInputs == {4}

\* penny ids: i stands for `penny_${i-1}`; 0 is an id no round ever creates
PennyInputs == 0..totalPennies

\* a player_move or collect_penny sent without a payload: data is undefined
NoPayload == -1

\* poses a client may report; spawn poses the server may draw
MovePositions == {0, 1}
SpawnPositions == {0}

VARIABLES
    connected,      \* sockets with registered handlers
    lobby,          \* Map socketId -> {walletAddress}, in insertion order
    players,        \* Map socketId -> {walletAddress, position, score}, in insertion order
    spectators,     \* Set of socket ids
    pennies,        \* Map pennyId -> collected, <<>> when cleared
    gamePhase,      \* "lobby" | "playing" | "results"
    lobbyTimer,     \* this.lobbyTimer holds the handle of a running interval
    lobbyLeak,      \* running lobby intervals whose handle was overwritten
    gameTimer,      \* this.gameTimer holds the handle of a running interval
    gameLeak,       \* running game intervals whose handle was overwritten
    lobbyElapsed,   \* seconds since lobbyStartTime, capped at lobbyTimerSeconds
    gameElapsed,    \* seconds since gameStartTime, capped at gameDurationSeconds
    resets,         \* pending reset timeouts of endGame
    payouts,        \* distributeRewards calls that have not reported yet
    rewardWallet,   \* SolanaService.rewardWallet holds a loaded keypair
    payoutCall,     \* the SolanaService.distributeRewards call that is followed
    crashed,        \* an exception has left a handler uncaught: the process is gone
    sentCollected,  \* penny_collected broadcasts per penny id since the coin set was made
    out,            \* messages emitted by the last handler, in emission order
    last            \* the event the last handler ran for

vars == <<connected, lobby, players, spectators, pennies, gamePhase,
          lobbyTimer, lobbyLeak, gameTimer, gameLeak, lobbyElapsed,
          gameElapsed, resets, payouts, rewardWallet, payoutCall, crashed,
          sentCollected, out, last>>

\* the state of the payout gateway
gatewayVars == <<rewardWallet, payoutCall>>

\* ------------------------------------------------------------ Map helpers
RECURSIVE IndexOf(_, _, _)
IndexOf(s, id, i) ==
    IF i > Len(s) THEN 0
    ELSE IF s[i].id = id THEN i ELSE IndexOf(s, id, i + 1)

Has(s, id) == IndexOf(s, id, 1) # 0
Get(s, id) == s[IndexOf(s, id, 1)]

\* Map.prototype.set: an existing key keeps its place, a new key goes last
MapSet(s, e) ==
    IF Has(s, e.id) THEN [s EXCEPT ![IndexOf(s, e.id, 1)] = e]
    ELSE Append(s, e)

\* Map.prototype.delete
MapDelete(s, id) == SelectSeq(s, LAMBDA e : e.id # id)

Min(a, b) == IF a < b THEN a ELSE b

\* Math.round(n / d) for n >= 0, d > 0
RoundDiv(n, d) == (2 * n + d) \div (2 * d)

\* an event of the event loop: a socket event with its payload, a timer callback
NoEvent == [kind |-> "none", id |-> 0, wallet |-> NoWallet, penny |-> 0, pos |-> 0]
Event(kind, id) == [NoEvent EXCEPT !.kind = kind, !.id = id]

\* ------------------------------------------------------ interval handles
\* a handle field is overwritten without clearInterval: its interval lives on
Leak(leak, t) == IF t THEN leak + 1 ELSE leak

\* ------------------------------------------------- GameManager, pure part
\* a sort that is not stable: an element goes before the elements it equals
RECURSIVE InsertDesc_BeforeEqual(_, _)
InsertDesc_BeforeEqual(s, e) ==
    IF s = <<>> THEN <<e>>
    ELSE IF Head(s).score > e.score THEN <<Head(s)>> \o InsertDesc_BeforeEqual(Tail(s), e)
    ELSE <<e>> \o s

\* Array.prototype.sort((a, b) => b.score - a.score): stable, score descending
RECURSIVE InsertDesc(_, _)
InsertDesc(s, e) ==
    IF s = <<>> THEN <<e>>
    ELSE IF Head(s).score >= e.score THEN <<Head(s)>> \o InsertDesc(Tail(s), e)
    ELSE <<e>> \o s

RECURSIVE SortDesc(_)
SortDesc(s) ==
    IF s = <<>> THEN <<>>
    ELSE InsertDesc(SortDesc(SubSeq(s, 1, Len(s) - 1)), s[Len(s)])

\* getScores without the sort
getScores_Unsorted(pls) ==
    [i \in 1..Len(pls) |-> [id |-> pls[i].id, score |-> pls[i].score]]

getScores(pls) ==
    SortDesc([i \in 1..Len(pls) |-> [id |-> pls[i].id, score |-> pls[i].score]])

\* p.walletAddress.slice(...) of getLobbyState throws a TypeError
getLobbyStateThrows(lob) == \E i \in DOMAIN lob : ~IsString(lob[i].walletAddress)

\* p.walletAddress.slice(...) of getScores throws a TypeError
getScoresThrows(pls) == \E i \in DOMAIN pls : ~IsString(pls[i].walletAddress)

getLobbyState(lob, phase) ==
    [players |-> [i \in 1..Len(lob) |-> lob[i].id],
     playerCount |-> Len(lob),
     gamePhase |-> phase]

getGameState(pls, pens, phase) ==
    [phase |-> phase,
     players |-> [i \in 1..Len(pls) |->
                    [id |-> pls[i].id, position |-> pls[i].position, score |-> pls[i].score]],
     penniesRemaining |-> Cardinality({i \in DOMAIN pens : ~pens[i]})]

\* the capacity test written with this.lobby.length, which a Map does not
\* have: undefined >= maxPlayers is false
LobbyIsFull_MapLength(lob) == FALSE

\* this.lobby.size >= this.maxPlayers
LobbyIsFull(lob) == Len(lob) >= maxPlayers

\* a duplicate test that looks at the first lobby entry only
WalletInLobby_FirstOnly(lob, w) == lob # <<>> /\ lob[1].walletAddress = w

WalletInLobby(lob, w) == \E i \in DOMAIN lob : lob[i].walletAddress = w

\* addPlayerToLobby without the test of the game phase
RejectReason_NoPhaseTest(lob, phase, w) ==
    IF w = NoWallet \/ WalletLength(w) < MinWalletLength THEN "Invalid wallet address"
    ELSE IF WalletInLobby(lob, w) THEN "Wallet already in lobby"
    ELSE IF LobbyIsFull(lob) THEN "Lobby is full. You can spectate!"
    ELSE ""

\* addPlayerToLobby with a cooldown: no wallet is let in while the payout of
\* the round before is awaited
RejectReason_Cooldown(lob, phase, w) ==
    IF w = NoWallet \/ WalletLength(w) < MinWalletLength THEN "Invalid wallet address"
    ELSE IF payouts > 0 THEN "Cooldown"
    ELSE IF WalletInLobby(lob, w) THEN "Wallet already in lobby"
    ELSE IF LobbyIsFull(lob) THEN "Lobby is full. You can spectate!"
    ELSE IF phase = "playing" THEN "Game in progress. You can spectate!"
    ELSE ""

\* the reason addPlayerToLobby rejects with, "" when it accepts
RejectReason(lob, phase, w) ==
    IF w = NoWallet \/ WalletLength(w) < MinWalletLength THEN "Invalid wallet address"
    ELSE IF WalletInLobby(lob, w) THEN "Wallet already in lobby"
    ELSE IF LobbyIsFull(lob) THEN "Lobby is full. You can spectate!"
    ELSE IF phase = "playing" THEN "Game in progress. You can spectate!"
    ELSE ""

\* startGame, lines 756-765: every lobby entry becomes a player record
RECURSIVE ConvertLobby(_, _, _)
ConvertLobby(lob, pls, spawn) ==
    IF lob = <<>> THEN pls
    ELSE ConvertLobby(Tail(lob),
                      MapSet(pls, [id |-> Head(lob).id,
                                   walletAddress |-> Head(lob).walletAddress,
                                   position |-> spawn,
                                   score |-> 0]),
                      spawn)

generatePennies == [i \in 1..totalPennies |-> FALSE]

NoneSent == [i \in 1..totalPennies |-> 0]

GameStartMsg(pls, pens, to) ==
    [type |-> "game_start", to |-> to,
     players |-> [i \in 1..Len(pls) |->
                    [id |-> pls[i].id, walletAddress |-> pls[i].walletAddress,
                     position |-> pls[i].position]],
     pennies |-> Len(pens),
     duration |-> gameDurationSeconds]

\* endGame, lines 862-888
Rankings(pls) ==
    SortDesc([i \in 1..Len(pls) |->
                [id |-> pls[i].id, walletAddress |-> pls[i].walletAddress,
                 score |-> pls[i].score]])

Winners(pls) == SubSeq(Rankings(pls), 1, Min(3, Len(pls)))

RECURSIVE SumScores(_)
SumScores(s) == IF s = <<>> THEN 0 ELSE Head(s).score + SumScores(Tail(s))

\* a share that does not look at the score: the pool in equal parts
RewardPercent_Equal(w, total, n) == RoundDiv(100, n)

\* the share computed with Math.floor
RewardPercent_Floor(w, total, n) ==
    IF total > 0 THEN (100 * w.score) \div total ELSE 100 \div n

RewardPercent(w, total, n) ==
    IF total > 0 THEN RoundDiv(100 * w.score, total) ELSE RoundDiv(100, n)

WinnersWithRewards(pls) ==
    LET ws == Winners(pls)
        total == SumScores(ws)
    IN [i \in 1..Len(ws) |->
          [id |-> ws[i].id, walletAddress |-> ws[i].walletAddress, score |-> ws[i].score,
           place |-> i, rewardPercent |-> RewardPercent(ws[i], total, Len(ws))]]

GameEndMsg(pls, to) ==
    [type |-> "game_end", to |-> to,
     rankings |-> Rankings(pls),
     winners |-> WinnersWithRewards(pls),
     totalTop3Coins |-> SumScores(Winners(pls))]

\* ------------------------------------------------ SolanaService, pure part
\* Amounts are whole lamports (1 SOL = LAMPORTS_PER_SOL lamports).  A call of
\* SolanaService.distributeRewards that is followed: where it stands (pc),
\* the winners it was called with, the balance it read, its loop index, the
\* recipients sendSOL was called for, the results pushed so far and, once it
\* has returned, what it returned.
NoResult == [success |-> FALSE, results |-> <<>>]
NoCall ==
    [pc |-> "none", winners |-> <<>>, balance |-> 0, i |-> 0, sent |-> <<>>,
     results |-> <<>>, result |-> NoResult]

\* the call as GameManager.distributeRewards makes it, lines 917-934
NewCall(ws) == [NoCall EXCEPT !.pc = "balance", !.winners = ws, !.i = 1]

\* the balance test without the fee reserve
InsufficientBalance_NoReserve(balance) == balance < rewardPoolPerGame

\* balance < totalNeeded, line 242.  The sum 0.05 + 0.01 evaluates to
\* 0.060000000000000005, which is above the 0.06 a balance of exactly
\* rewardPoolPerGame + feeReserve lamports converts to.
InsufficientBalance(balance) == balance < rewardPoolPerGame + feeReserve + 1

\* Math.min(winners.length, 3)
NumWinners(ws) == Min(Len(ws), 3)

\* the share rounded up to the next lamport
AmountLamports_RoundUp(ws, i) ==
    LET top == SubSeq(ws, 1, NumWinners(ws))
        total == SumScores(top)
        n == IF total > 0 THEN rewardPoolPerGame * ws[i].score ELSE rewardPoolPerGame
        d == IF total > 0 THEN total ELSE Len(ws)
    IN (n + d - 1) \div d

\* Math.floor(amountSOL * LAMPORTS_PER_SOL) of the i-th winner: its share of
\* the pool by score, an equal share when the scores sum to zero (the
\* percentages of lines 917-923 normalised by lines 253-261)
AmountLamports(ws, i) ==
    LET top == SubSeq(ws, 1, NumWinners(ws))
        total == SumScores(top)
    IN IF total > 0 THEN (rewardPoolPerGame * ws[i].score) \div total
       ELSE rewardPoolPerGame \div Len(ws)

\* what sendSOL returns; o is what the network made of the transfer, "" for
\* a confirmed one, else the error
sendSOL(wallet, lamports, o) ==
    IF ~wallet THEN [success |-> TRUE, simulated |-> TRUE, error |-> ""]
    ELSE IF lamports <= 0
         THEN [success |-> FALSE, simulated |-> FALSE, error |-> "Amount too small to send"]
    ELSE [success |-> o = "", simulated |-> FALSE, error |-> o]

\* results.push, lines 270-281
ResultEntry(ws, i, r) ==
    [place |-> i, wallet |-> ws[i].walletAddress, coins |-> ws[i].score,
     amount |-> AmountLamports(ws, i), success |-> r.success,
     simulated |-> r.simulated, error |-> r.error]

SuccessCount(results) == Cardinality({i \in DOMAIN results : results[i].success})

\* what the gateway returns when the balance does not cover the round
Refused == [success |-> FALSE, results |-> <<>>, error |-> "Insufficient balance"]

\* what the gateway returns at the end of its loop
Distributed(results) == [success |-> SuccessCount(results) > 0, results |-> results]

\* io.emit('rewards_distributed') of lines 940-944 for the gateway's result
RewardsReport(result, to) ==
    [type |-> "rewards_distributed", to |-> to,
     winners |-> result.results, success |-> result.success, proportional |-> TRUE]


\* --------------------------------------------------------------- Init
Init ==
    /\ connected = {}
    /\ lobby = <<>>
    /\ players = <<>>
    /\ spectators = {}
    /\ pennies = <<>>
    /\ gamePhase = "lobby"
    /\ lobbyTimer = FALSE
    /\ lobbyLeak = 0
    /\ gameTimer = FALSE
    /\ gameLeak = 0
    /\ lobbyElapsed = 0
    /\ gameElapsed = 0
    /\ resets = 0
    /\ payouts = 0
    /\ rewardWallet = TRUE
    /\ payoutCall = NoCall
    /\ crashed = FALSE
    /\ sentCollected = NoneSent
    /\ out = <<>>
    /\ last = NoEvent

\* ------------------------------------------------------------ startGame
\* startGame() called with the lobby map lob; pre and post are the messages
\* the calling handler emits before and after it.  clearInterval stops the
\* interval behind this.lobbyTimer; the interval behind this.gameTimer is
\* not cleared before the handle is overwritten.
startGame(lob, pre, post) ==
    \E spawn \in SpawnPositions :
        LET pls == ConvertLobby(lob, players, spawn)
            pens == generatePennies
        IN /\ Leak(gameLeak, gameTimer) <= MaxLeak
           /\ lobbyTimer' = FALSE
           /\ gamePhase' = "playing"
           /\ gameElapsed' = 0
           /\ players' = pls
           /\ lobby' = <<>>
           /\ pennies' = pens
           /\ sentCollected' = NoneSent
           /\ gameLeak' = Leak(gameLeak, gameTimer)
           /\ gameTimer' = TRUE
           /\ out' = pre \o <<GameStartMsg(pls, pens, connected)>> \o post

\* ------------------------------------------------- connection registry
Connect(c) ==
    /\ c \notin connected
    /\ ~crashed
    /\ last' = Event("connection", c)
    /\ UNCHANGED <<gatewayVars, crashed>>
    /\ connected' = connected \cup {c}
    /\ out' = <<>>
    /\ UNCHANGED <<lobby, players, spectators, pennies, gamePhase, lobbyTimer,
                   lobbyLeak, gameTimer, gameLeak, lobbyElapsed, gameElapsed,
                   resets, payouts, sentCollected>>

\* a removePlayer that forgets the active-player map
Disconnect_LobbyOnly(c) ==
    /\ c \in connected
    /\ ~crashed
    /\ last' = Event("disconnect", c)
    /\ UNCHANGED <<gatewayVars, crashed>>
    /\ connected' = connected \ {c}
    /\ lobby' = MapDelete(lobby, c)
    /\ spectators' = spectators \ {c}
    /\ out' = <<[type |-> "lobby_update", to |-> connected \ {c},
                 lobbyState |-> getLobbyState(MapDelete(lobby, c), gamePhase)],
                [type |-> "player_left", to |-> connected \ {c}, playerId |-> c]>>
    /\ UNCHANGED <<players, pennies, gamePhase, lobbyTimer, lobbyLeak, gameTimer, gameLeak,
                   lobbyElapsed, gameElapsed, resets, payouts, sentCollected>>

\* a removePlayer that puts every coin back when a player leaves
Disconnect_Respawns(c) ==
    /\ c \in connected
    /\ ~crashed
    /\ last' = Event("disconnect", c)
    /\ UNCHANGED <<gatewayVars, crashed>>
    /\ connected' = connected \ {c}
    /\ lobby' = MapDelete(lobby, c)
    /\ players' = MapDelete(players, c)
    /\ spectators' = spectators \ {c}
    /\ pennies' = [p \in DOMAIN pennies |-> FALSE]
    /\ out' = <<[type |-> "lobby_update", to |-> connected \ {c},
                 lobbyState |-> getLobbyState(MapDelete(lobby, c), gamePhase)],
                [type |-> "player_left", to |-> connected \ {c}, playerId |-> c]>>
    /\ UNCHANGED <<gamePhase, lobbyTimer, lobbyLeak, gameTimer, gameLeak,
                   lobbyElapsed, gameElapsed, resets, payouts, sentCollected>>

\* socket.on('disconnect') with removePlayer
Disconnect(c) ==
    /\ c \in connected
    /\ ~crashed
    /\ last' = Event("disconnect", c)
    /\ UNCHANGED <<gatewayVars, crashed>>
    /\ connected' = connected \ {c}
    /\ lobby' = MapDelete(lobby, c)
    /\ players' = MapDelete(players, c)
    /\ spectators' = spectators \ {c}
    /\ out' = <<[type |-> "lobby_update", to |-> connected \ {c},
                 lobbyState |-> getLobbyState(MapDelete(lobby, c), gamePhase)],
                [type |-> "player_left", to |-> connected \ {c}, playerId |-> c]>>
    /\ UNCHANGED <<pennies, gamePhase, lobbyTimer, lobbyLeak, gameTimer, gameLeak,
                   lobbyElapsed, gameElapsed, resets, payouts, sentCollected>>

\* ------------------------------------------------------------ join_lobby
\* a rejection sent with io.emit instead of socket.emit
RejectReply_ToAll(c, reason) ==
    <<[type |-> "lobby_joined", to |-> connected, success |-> FALSE, reason |-> reason]>>

\* the reply of the join_lobby handler to a rejected join
RejectReply(c, reason) ==
    <<[type |-> "lobby_joined", to |-> {c}, success |-> FALSE, reason |-> reason]>>

\* socket.on('join_lobby') with addPlayerToLobby.  Without a payload the
\* destructuring of line 34 throws; a wallet that is no string passes the
\* tests of addPlayerToLobby and makes getLobbyState throw in the handler,
\* after the entry is made, unless the game has started and emptied the lobby.
JoinLobby(c, w) ==
    LET reason == RejectReason(lobby, gamePhase, w)
        lob1 == MapSet(lobby, [id |-> c, walletAddress |-> w])
        first == Len(lob1) = 1
        lt1 == IF first THEN TRUE ELSE lobbyTimer
        lk1 == IF first THEN Leak(lobbyLeak, lobbyTimer) ELSE lobbyLeak
        Reply(lob, phase) ==
            <<[type |-> "lobby_joined", to |-> {c}, success |-> TRUE, reason |-> "",
               playerId |-> c, lobbyState |-> getLobbyState(lob, phase)],
              [type |-> "lobby_update", to |-> connected,
               lobbyState |-> getLobbyState(lob, phase)]>>
    IN /\ c \in connected
       /\ ~crashed
       /\ last' = [Event("join_lobby", c) EXCEPT !.wallet = w]
       /\ UNCHANGED gatewayVars
       /\ IF w = NoData
          THEN /\ crashed' = TRUE
               /\ out' = <<>>
               /\ UNCHANGED <<connected, lobby, players, spectators, pennies, gamePhase,
                              lobbyTimer, lobbyLeak, gameTimer, gameLeak, lobbyElapsed,
                              gameElapsed, resets, payouts, sentCollected>>
          ELSE IF reason # ""
          THEN /\ out' = RejectReply(c, reason)
               /\ UNCHANGED <<connected, lobby, players, spectators, pennies, gamePhase,
                              lobbyTimer, lobbyLeak, gameTimer, gameLeak, lobbyElapsed,
                              gameElapsed, resets, payouts, sentCollected, crashed>>
          ELSE /\ lk1 <= MaxLeak
               /\ lobbyLeak' = lk1
               /\ lobbyElapsed' = IF first THEN 0 ELSE lobbyElapsed
               /\ IF LobbyIsFull(lob1)
                  THEN /\ startGame(lob1, <<>>, Reply(<<>>, "playing"))
                       /\ UNCHANGED crashed
                  ELSE /\ lobby' = lob1
                       /\ lobbyTimer' = lt1
                       /\ crashed' = getLobbyStateThrows(lob1)
                       /\ out' = IF getLobbyStateThrows(lob1) THEN <<>>
                                 ELSE Reply(lob1, gamePhase)
                       /\ UNCHANGED <<players, pennies, gamePhase, gameTimer, gameLeak,
                                      gameElapsed, sentCollected>>
               /\ UNCHANGED <<connected, spectators, resets, payouts>>

\* -------------------------------------------------------- join_spectator
JoinSpectator(c) ==
    /\ c \in connected
    /\ ~crashed
    /\ last' = Event("join_spectator", c)
    /\ UNCHANGED <<gatewayVars, crashed>>
    /\ spectators' = spectators \cup {c}
    /\ out' = <<[type |-> "spectator_joined", to |-> {c},
                 gameState |-> getGameState(players, pennies, gamePhase)]>>
    /\ UNCHANGED <<connected, lobby, players, pennies, gamePhase, lobbyTimer,
                   lobbyLeak, gameTimer, gameLeak, lobbyElapsed, gameElapsed,
                   resets, payouts, sentCollected>>

\* ----------------------------------------------------------- player_move
\* updatePlayerPosition
updatePlayerPosition(pls, c, pos) ==
    IF Has(pls, c) THEN MapSet(pls, [Get(pls, c) EXCEPT !.position = pos]) ELSE pls

\* socket.on('player_move').  Without a payload data.position throws when
\* the sender has a player record; otherwise the spread of undefined adds
\* nothing to the message.
PlayerMove(c, pos) ==
    /\ c \in connected
    /\ ~crashed
    /\ last' = [Event("player_move", c) EXCEPT !.pos = pos]
    /\ UNCHANGED gatewayVars
    /\ IF pos = NoPayload /\ Has(players, c)
       THEN /\ crashed' = TRUE
            /\ out' = <<>>
            /\ UNCHANGED players
       ELSE /\ players' = IF pos = NoPayload THEN players
                          ELSE updatePlayerPosition(players, c, pos)
            /\ out' = IF pos = NoPayload
                      THEN <<[type |-> "player_moved", to |-> connected \ {c},
                              playerId |-> c]>>
                      ELSE <<[type |-> "player_moved", to |-> connected \ {c},
                              playerId |-> c, position |-> pos]>>
            /\ UNCHANGED crashed
    /\ UNCHANGED <<connected, lobby, spectators, pennies, gamePhase, lobbyTimer,
                   lobbyLeak, gameTimer, gameLeak, lobbyElapsed, gameElapsed,
                   resets, payouts, sentCollected>>

\* --------------------------------------------------------- collect_penny
\* collectPenny without the test of the collected flag
CanCollect_NoFlagTest(pls, pens, c, p) == Has(pls, c) /\ p \in DOMAIN pens

\* collectPenny's guard: the intent is honoured
CanCollect(pls, pens, c, p) == Has(pls, c) /\ p \in DOMAIN pens /\ ~pens[p]

\* a collect_penny handler that broadcasts without testing result.success
CollectReply_NoSuccessTest(success, c, p, score, pls) ==
    <<[type |-> "penny_collected", to |-> connected,
       pennyId |-> p, playerId |-> c, playerScore |-> score],
      [type |-> "scores_update", to |-> connected, scores |-> getScores(pls)]>>

\* what the collect_penny handler emits for the result of collectPenny
CollectReply(success, c, p, score, pls) ==
    IF success
    THEN <<[type |-> "penny_collected", to |-> connected,
            pennyId |-> p, playerId |-> c, playerScore |-> score],
           [type |-> "scores_update", to |-> connected, scores |-> getScores(pls)]>>
    ELSE <<>>

\* socket.on('collect_penny') with collectPenny.  Without a payload
\* data.pennyId throws; a player whose wallet is no string makes getScores
\* throw once the coin is collected and penny_collected is out.
CollectPenny(c, p) ==
    /\ c \in connected
    /\ ~crashed
    /\ last' = [Event("collect_penny", c) EXCEPT !.penny = p]
    /\ UNCHANGED gatewayVars
    /\ IF p = NoPayload
       THEN /\ crashed' = TRUE
            /\ out' = <<>>
            /\ UNCHANGED <<pennies, players, sentCollected>>
       ELSE IF CanCollect(players, pennies, c, p)
       THEN LET pl == [Get(players, c) EXCEPT !.score = @ + 1]
                pls == MapSet(players, pl)
            IN /\ pennies' = [pennies EXCEPT ![p] = TRUE]
               /\ players' = pls
               /\ sentCollected' = [sentCollected EXCEPT ![p] = @ + 1]
               /\ crashed' = getScoresThrows(pls)
               /\ out' = IF getScoresThrows(pls)
                         THEN SubSeq(CollectReply(TRUE, c, p, pl.score, pls), 1, 1)
                         ELSE CollectReply(TRUE, c, p, pl.score, pls)
       ELSE /\ out' = CollectReply(FALSE, c, p, 0, players)
            /\ UNCHANGED <<pennies, players, sentCollected, crashed>>
    /\ UNCHANGED <<connected, lobby, spectators, gamePhase, lobbyTimer, lobbyLeak,
                   gameTimer, gameLeak, lobbyElapsed, gameElapsed, resets, payouts>>

\* ------------------------------------------------------- timer callbacks
\* the countdown's test with a threshold of one lobby entry
TimerStartsGame_One(remaining, lob) == remaining <= 0 /\ Len(lob) >= 1

\* remaining <= 0 && this.lobby.size >= 2
TimerStartsGame(remaining, lob) == remaining <= 0 /\ Len(lob) >= 2

\* the setInterval callback of startLobbyTimer; leaked = the interval is one
\* whose handle was overwritten
LobbyTick(leaked) ==
    LET remaining == lobbyTimerSeconds - lobbyElapsed
        tick == <<[type |-> "lobby_timer", to |-> connected,
                   remaining |-> remaining, total |-> lobbyTimerSeconds]>>
    IN /\ IF leaked THEN lobbyLeak > 0 ELSE lobbyTimer
       /\ ~crashed
       /\ last' = Event(IF leaked THEN "lobby_tick_leaked" ELSE "lobby_tick", 0)
       /\ UNCHANGED <<gatewayVars, crashed>>
       /\ IF TimerStartsGame(remaining, lobby)
          THEN /\ startGame(lobby, tick, <<>>)
               /\ UNCHANGED lobbyElapsed
          ELSE /\ lobbyElapsed' = IF remaining <= 0 THEN 0 ELSE lobbyElapsed
               /\ out' = IF remaining <= 0
                         THEN tick \o <<[type |-> "lobby_message", to |-> connected]>>
                         ELSE tick
               /\ UNCHANGED <<lobby, players, pennies, gamePhase, lobbyTimer, gameTimer,
                              gameLeak, gameElapsed, sentCollected>>
       /\ UNCHANGED <<connected, spectators, lobbyLeak, resets, payouts>>

\* what distributeRewards reports once the payout gateway has answered (ok)
\* or has thrown and the catch block runs
RewardsDistributedMsg(ok, to) ==
    [type |-> "rewards_distributed", to |-> to, success |-> ok]

\* an endGame that awaits distributeRewards: with winners the payout has not
\* returned in this turn and the reset is not scheduled yet
endGame_AwaitsPayout(pre) ==
    /\ resets < MaxResets
    /\ gameTimer' = FALSE
    /\ gamePhase' = "results"
    /\ IF players = <<>>
       THEN /\ out' = pre \o <<GameEndMsg(players, connected),
                                RewardsDistributedMsg(FALSE, connected)>>
            /\ resets' = resets + 1
            /\ UNCHANGED payouts
       ELSE /\ payouts < MaxPayouts
            /\ out' = pre \o <<GameEndMsg(players, connected)>>
            /\ payouts' = payouts + 1
            /\ UNCHANGED resets

\* endGame(); pre are the messages emitted before it.  distributeRewards is
\* called without await: with winners it waits for the payout gateway while
\* endGame goes on to schedule the reset; with no winner the gateway returns
\* 'No winners' at once and the report is emitted at the end of this turn.
endGame(pre) ==
    /\ resets < MaxResets
    /\ gameTimer' = FALSE
    /\ gamePhase' = "results"
    /\ IF players = <<>>
       THEN /\ out' = pre \o <<GameEndMsg(players, connected),
                                RewardsDistributedMsg(FALSE, connected)>>
            /\ UNCHANGED payouts
       ELSE /\ payouts < MaxPayouts
            /\ out' = pre \o <<GameEndMsg(players, connected)>>
            /\ payouts' = payouts + 1
    /\ resets' = resets + 1

\* the setInterval callback of startGame
GameTick(leaked) ==
    LET remaining == gameDurationSeconds - gameElapsed
        tick == <<[type |-> "game_timer", to |-> connected,
                   remaining |-> remaining, total |-> gameDurationSeconds]>>
    IN /\ IF leaked THEN gameLeak > 0 ELSE gameTimer
       /\ ~crashed
       /\ last' = Event(IF leaked THEN "game_tick_leaked" ELSE "game_tick", 0)
       /\ UNCHANGED <<gatewayVars, crashed>>
       /\ IF remaining <= 0
          THEN endGame(tick)
          ELSE /\ out' = tick
               /\ UNCHANGED <<gamePhase, gameTimer, resets, payouts>>
       /\ UNCHANGED <<connected, lobby, players, spectators, pennies, lobbyTimer,
                      lobbyLeak, gameLeak, lobbyElapsed, gameElapsed, sentCollected>>

\* a resetGame that leaves the spectator set alone
ResetGame_KeepsSpectators ==
    /\ resets > 0
    /\ ~crashed
    /\ last' = Event("reset", 0)
    /\ UNCHANGED <<gatewayVars, crashed>>
    /\ resets' = resets - 1
    /\ players' = <<>>
    /\ pennies' = <<>>
    /\ gamePhase' = "lobby"
    /\ sentCollected' = NoneSent
    /\ out' = <<[type |-> "game_reset", to |-> connected]>>
    /\ UNCHANGED <<connected, lobby, spectators, lobbyTimer, lobbyLeak, gameTimer,
                   gameLeak, lobbyElapsed, gameElapsed, payouts>>

\* a resetGame that leaves the coins alone
ResetGame_KeepsCoins ==
    /\ resets > 0
    /\ ~crashed
    /\ last' = Event("reset", 0)
    /\ UNCHANGED <<gatewayVars, crashed>>
    /\ resets' = resets - 1
    /\ players' = <<>>
    /\ gamePhase' = "lobby"
    /\ spectators' = {}
    /\ sentCollected' = NoneSent
    /\ out' = <<[type |-> "game_reset", to |-> connected]>>
    /\ UNCHANGED <<connected, lobby, pennies, lobbyTimer, lobbyLeak, gameTimer, gameLeak,
                   lobbyElapsed, gameElapsed, payouts>>

\* the setTimeout callback of endGame: resetGame()
ResetGame ==
    /\ resets > 0
    /\ ~crashed
    /\ last' = Event("reset", 0)
    /\ UNCHANGED <<gatewayVars, crashed>>
    /\ resets' = resets - 1
    /\ players' = <<>>
    /\ pennies' = <<>>
    /\ gamePhase' = "lobby"
    /\ spectators' = {}
    /\ sentCollected' = NoneSent
    /\ out' = <<[type |-> "game_reset", to |-> connected]>>
    /\ UNCHANGED <<connected, lobby, lobbyTimer, lobbyLeak, gameTimer, gameLeak,
                   lobbyElapsed, gameElapsed, payouts>>

\* distributeRewards resumes after its await and reports
PayoutSettles(ok) ==
    /\ payouts > 0
    /\ ~crashed
    /\ last' = Event("payout", 0)
    /\ UNCHANGED <<gatewayVars, crashed>>
    /\ payouts' = payouts - 1
    /\ out' = <<RewardsDistributedMsg(ok, connected)>>
    /\ UNCHANGED <<connected, lobby, players, spectators, pennies, gamePhase,
                   lobbyTimer, lobbyLeak, gameTimer, gameLeak, lobbyElapsed,
                   gameElapsed, resets, sentCollected>>

\* ------------------------------------------------------ payout gateway
\* balances the reward wallet may hold when the gateway asks for it
Balances ==
    {0, rewardPoolPerGame, rewardPoolPerGame + feeReserve, rewardPoolPerGame + feeReserve + 1}

\* what may become of a transfer that is sent to the network
TransferOutcomes ==
    {"", "Insufficient balance in reward wallet", "Transaction failed on chain"}

\* GameManager.distributeRewards resumes with the gateway's result and reports
ReportRewards(result) ==
    /\ payouts' = payouts - 1
    /\ out' = <<RewardsReport(result, connected)>>

\* SolanaService.distributeRewards up to its loop: getRewardPoolBalance has
\* answered b (0 without a reward wallet)
GatewayBalance(b) ==
    LET balance == IF rewardWallet THEN b ELSE 0
    IN /\ payoutCall.pc = "balance"
       /\ payouts > 0
       /\ ~crashed
       /\ last' = Event("gateway_balance", 0)
       /\ IF InsufficientBalance(balance) /\ rewardWallet
          THEN /\ payoutCall' = [payoutCall EXCEPT !.pc = "done", !.balance = balance,
                                                   !.result = Refused]
               /\ ReportRewards(Refused)
          ELSE /\ payoutCall' = [payoutCall EXCEPT !.pc = "send", !.balance = balance]
               /\ out' = <<>>
               /\ UNCHANGED payouts
       /\ UNCHANGED <<connected, lobby, players, spectators, pennies, gamePhase,
                      lobbyTimer, lobbyLeak, gameTimer, gameLeak, lobbyElapsed,
                      gameElapsed, resets, rewardWallet, crashed, sentCollected>>

\* a loop that ends at the first payment that fails
GatewaySend_StopsAtFailure(o) ==
    LET ws == payoutCall.winners
        i == payoutCall.i
        r == sendSOL(rewardWallet, AmountLamports(ws, i), o)
        results == Append(payoutCall.results, ResultEntry(ws, i, r))
        call == [payoutCall EXCEPT !.sent = Append(@, ws[i].walletAddress),
                                   !.results = results, !.i = i + 1]
    IN /\ payoutCall.pc = "send"
       /\ payouts > 0
       /\ ~crashed
       /\ last' = Event("gateway_send", 0)
       /\ IF i >= NumWinners(ws) \/ ~r.success
          THEN /\ payoutCall' = [call EXCEPT !.pc = "done", !.result = Distributed(results)]
               /\ ReportRewards(Distributed(results))
          ELSE /\ payoutCall' = call
               /\ out' = <<>>
               /\ UNCHANGED payouts
       /\ UNCHANGED <<connected, lobby, players, spectators, pennies, gamePhase,
                      lobbyTimer, lobbyLeak, gameTimer, gameLeak, lobbyElapsed,
                      gameElapsed, resets, rewardWallet, crashed, sentCollected>>

\* one pass of the loop of SolanaService.distributeRewards, lines 257-287:
\* sendSOL for the i-th winner has returned, its result is pushed; after the
\* last pass the gateway returns and the coordinator reports
GatewaySend(o) ==
    LET ws == payoutCall.winners
        i == payoutCall.i
        r == sendSOL(rewardWallet, AmountLamports(ws, i), o)
        results == Append(payoutCall.results, ResultEntry(ws, i, r))
        call == [payoutCall EXCEPT !.sent = Append(@, ws[i].walletAddress),
                                   !.results = results, !.i = i + 1]
    IN /\ payoutCall.pc = "send"
       /\ payouts > 0
       /\ ~crashed
       /\ last' = Event("gateway_send", 0)
       /\ IF i >= NumWinners(ws)
          THEN /\ payoutCall' = [call EXCEPT !.pc = "done", !.result = Distributed(results)]
               /\ ReportRewards(Distributed(results))
          ELSE /\ payoutCall' = call
               /\ out' = <<>>
               /\ UNCHANGED payouts
       /\ UNCHANGED <<connected, lobby, players, spectators, pennies, gamePhase,
                      lobbyTimer, lobbyLeak, gameTimer, gameLeak, lobbyElapsed,
                      gameElapsed, resets, rewardWallet, crashed, sentCollected>>


\* Date.now() moves on by a second.  Only the interval callbacks read the
\* clock, each against the start time of its kind: a reading moves while an
\* interval of its kind exists and has not yet counted its full duration.
LobbyClockRead == lobbyTimer \/ lobbyLeak > 0
GameClockRead == gameTimer \/ gameLeak > 0

AdvanceTime ==
    LET le == IF LobbyClockRead THEN Min(lobbyElapsed + 1, lobbyTimerSeconds) ELSE lobbyElapsed
        ge == IF GameClockRead THEN Min(gameElapsed + 1, gameDurationSeconds) ELSE gameElapsed
    IN /\ <<le, ge>> # <<lobbyElapsed, gameElapsed>>
       /\ lobbyElapsed' = le
       /\ gameElapsed' = ge
       /\ ~crashed
       /\ last' = Event("clock", 0)
       /\ UNCHANGED <<gatewayVars, crashed>>
       /\ out' = <<>>
       /\ UNCHANGED <<connected, lobby, players, spectators, pennies, gamePhase,
                      lobbyTimer, lobbyLeak, gameTimer, gameLeak, resets, payouts,
                      sentCollected>>

\* ---------------------------------------------------------------- Next
\* Every handler and callback runs in the server process: none runs once an
\* uncaught exception has ended it (the ~crashed of each action).
\* The clients: C the sockets that connect, J the join_lobby intents sent as
\* <<connection, wallet>>, S the connections that ask to spectate, M the
\* player_move intents as <<connection, pose>>, P the collect_penny intents as
\* <<connection, penny id>>.
NextWith(C, J, S, M, P) ==
    \/ \E c \in C : Connect(c)
    \/ \E c \in C : Disconnect(c)
    \/ \E j \in J : JoinLobby(j[1], j[2])
    \/ \E c \in S : JoinSpectator(c)
    \/ \E m \in M : PlayerMove(m[1], m[2])
    \/ \E p \in P : CollectPenny(p[1], p[2])
    \/ LobbyTick(FALSE)
    \/ LobbyTick(TRUE)
    \/ GameTick(FALSE)
    \/ GameTick(TRUE)
    \/ ResetGame
    \/ \E ok \in BOOLEAN : PayoutSettles(ok)
    \/ AdvanceTime

\* Three clients around a lobby of three, with good and bad addresses; one of
\* them also moves and collects, one also spectates.
Next ==
    NextWith(1..3, {j \in JoinInputs : j[1] \in 1..3}, {3}, {<<1, 0>>}, {<<1, 1>>})

Spec == Init /\ [][Next]_vars

\* Four clients for a lobby of three, each with a wallet of its own; the
\* fourth also spectates, moves and asks for a coin that does not exist.
NextCrowd ==
    NextWith(Conns, OwnJoins, SpectatorInputs, {<<4, 0>>}, {<<4, 0>>})

SpecCrowd == Init /\ [][NextCrowd]_vars

\* Three clients that play and compete for the coins; the third also spectates.
NextCollect ==
    NextWith(1..3, OwnJoins, {3}, {<<1, 0>>},
             {<<1, 1>>, <<2, 1>>, <<3, 1>>, <<3, 2>>, <<3, 0>>})

SpecCollect == Init /\ [][NextCollect]_vars

\* The end of a round for the ranking: the active-player map holds up to
\* MaxRanked players, entered in ascending or in descending order of their
\* ids, each with up to MaxScore coins, and the game countdown has run out.
InitRank ==
    \E n \in 0..MaxRanked, descending \in BOOLEAN :
        \E score \in [1..n -> 0..MaxScore] :
            LET id(i) == IF descending THEN n + 1 - i ELSE i
            IN /\ players = [i \in 1..n |->
                                [id |-> id(i), walletAddress |-> <<id(i), 44>>,
                                 position |-> 0, score |-> score[i]]]
               /\ connected = 1..n
               /\ lobby = <<>>
               /\ spectators = {}
               /\ pennies = [i \in 1..totalPennies |-> TRUE]
               /\ gamePhase = "playing"
               /\ lobbyTimer = FALSE
               /\ lobbyLeak = 0
               /\ gameTimer = TRUE
               /\ gameLeak = 0
               /\ lobbyElapsed = 0
               /\ gameElapsed = gameDurationSeconds
               /\ resets = 0
               /\ payouts = 0
               /\ rewardWallet = TRUE
               /\ payoutCall = NoCall
               /\ crashed = FALSE
               /\ sentCollected = [i \in 1..totalPennies |-> 1]
               /\ out = <<>>
               /\ last = NoEvent

\* the game countdown ticks, the payout reports, the reset fires
NextRank ==
    \/ GameTick(FALSE)
    \/ \E ok \in BOOLEAN : PayoutSettles(ok)
    \/ ResetGame

SpecRank == InitRank /\ [][NextRank]_vars

\* Two clients, a lobby countdown that starts their games, and a reset
\* timeout that fires once it is pending (setTimeout, line 903); nothing is
\* assumed of the payout, which may never report.
NextLive ==
    NextWith(1..2, {j \in OwnJoins : j[1] \in 1..2}, {2}, {<<1, 0>>}, {<<1, 1>>})

SpecLive == Init /\ [][NextLive]_vars /\ WF_vars(ResetGame)

\* The payout of a round: endGame has just run on an active-player map of
\* up to MaxPaid players with up to MaxCoins coins each and has called
\* distributeRewards, with or without a reward wallet loaded; the gateway
\* call proceeds while the reset timeout is pending.
InitPay ==
    \E n \in 1..MaxPaid, wallet \in BOOLEAN :
        \E score \in [1..n -> 0..MaxCoins] :
            /\ players = [i \in 1..n |->
                             [id |-> i, walletAddress |-> <<i, 44>>,
                              position |-> 0, score |-> score[i]]]
            /\ connected = 1..n
            /\ lobby = <<>>
            /\ spectators = {}
            /\ pennies = [i \in 1..totalPennies |-> TRUE]
            /\ gamePhase = "results"
            /\ lobbyTimer = FALSE
            /\ lobbyLeak = 0
            /\ gameTimer = FALSE
            /\ gameLeak = 0
            /\ lobbyElapsed = 0
            /\ gameElapsed = gameDurationSeconds
            /\ resets = 1
            /\ payouts = 1
            /\ rewardWallet = wallet
            /\ payoutCall = NewCall(Winners(players))
            /\ crashed = FALSE
            /\ sentCollected = [i \in 1..totalPennies |-> 1]
            /\ out = <<GameEndMsg(players, connected)>>
            /\ last = Event("game_tick", 0)

NextPay ==
    \/ \E b \in Balances : GatewayBalance(b)
    \/ \E o \in TransferOutcomes : GatewaySend(o)
    \/ ResetGame

SpecPay == InitPay /\ [][NextPay]_vars

\* Three clients of which the third sends what a well-behaved client never
\* sends: a join_lobby without a payload or with a wallet that is no string;
\* the first also sends player_move and collect_penny without a payload.
NextBadPayload ==
    NextWith(1..3, {<<1, <<1, 44>>>>, <<2, <<2, 44>>>>, <<3, NotAString>>, <<3, NoData>>},
             {2}, {<<1, NoPayload>>}, {<<1, NoPayload>>, <<1, 1>>})

SpecBadPayload == Init /\ [][NextBadPayload]_vars

TypeOK ==
    /\ connected \subseteq Conns
    /\ gamePhase \in {"lobby", "playing", "results"}
    /\ lobbyTimer \in BOOLEAN
    /\ gameTimer \in BOOLEAN

\* ================================================================ claims
IsCollect(e) == e.kind = "collect_penny"
IsJoin(e) == e.kind = "join_lobby"

RECURSIVE IsSortedDesc(_)
IsSortedDesc(s) ==
    Len(s) < 2 \/ (s[1].score >= s[2].score /\ IsSortedDesc(Tail(s)))

C2_CollectEffect ==
    [][(IsCollect(last') /\ CanCollect(players, pennies, last'.id, last'.penny)) =>
        LET c == last'.id
            p == last'.penny
            i == IndexOf(players, c, 1)
        IN /\ pennies' = [pennies EXCEPT ![p] = TRUE]
           /\ players' = [players EXCEPT ![i].score = @ + 1]
           /\ lobby' = lobby /\ spectators' = spectators /\ gamePhase' = gamePhase
           /\ Len(out') = 2
           /\ out'[1].type = "penny_collected" /\ out'[1].to = connected
           /\ out'[1].pennyId = p /\ out'[1].playerId = c
           /\ out'[1].playerScore = players[i].score + 1
           /\ out'[2].type = "scores_update" /\ out'[2].to = connected
           /\ IsSortedDesc(out'[2].scores)
           /\ Len(out'[2].scores) = Len(players')
           /\ \A k \in DOMAIN players' :
                \E j \in DOMAIN out'[2].scores :
                    /\ out'[2].scores[j].id = players'[k].id
                    /\ out'[2].scores[j].score = players'[k].score
       ]_vars

\* the player entered last has just overtaken a player who holds a point
C2_Witness ==
    /\ IsCollect(last) /\ Len(out) = 2
    /\ out[1].playerScore = 2
    /\ Len(players) = 3 /\ players[3].id = last.id
    /\ \E i \in 1..2 : players[i].score = 0

\* C3: a collect_penny from a connection without a player record, for an
\* unknown coin id or for a collected coin changes no flag, score, lobby entry
\* or phase and emits nothing.
C3_CollectFailsSilently ==
    [][(IsCollect(last') /\ ~CanCollect(players, pennies, last'.id, last'.penny)) =>
        /\ pennies' = pennies /\ players' = players /\ lobby' = lobby
        /\ gamePhase' = gamePhase /\ spectators' = spectators
        /\ out' = <<>>
      ]_vars

\* a connection that is no player has tried a coin that lies uncollected
C3_Witness ==
    /\ IsCollect(last) /\ out = <<>>
    /\ ~Has(players, last.id)
    /\ last.penny \in DOMAIN pennies /\ ~pennies[last.penny]
    /\ gamePhase = "playing"

ValidWallet(w) == w # NoWallet /\ WalletLength(w) >= MinWalletLength
JoinRejected(o) == Len(o) = 1 /\ o[1].type = "lobby_joined" /\ ~o[1].success
JoinAccepted(o) == \E i \in DOMAIN o : o[i].type = "lobby_joined" /\ o[i].success
GameStarted(o) == \E i \in DOMAIN o : o[i].type = "game_start"
\* the lobby map once the join of event e is entered
Entered(lob, e) == MapSet(lob, [id |-> e.id, walletAddress |-> e.wallet])
Ids(s) == {s[i].id : i \in DOMAIN s}
TimersUnchanged ==
    UNCHANGED <<lobbyTimer, lobbyLeak, gameTimer, gameLeak, lobbyElapsed, gameElapsed, resets>>

\* C4: the lobby never holds more entries than maxPlayers.
C4_LobbyWithinMax == Len(lobby) <= maxPlayers

\* a join has brought the lobby to one entry below the maximum
C4_Witness ==
    /\ IsJoin(last) /\ JoinAccepted(out)
    /\ Len(lobby) = maxPlayers - 1 /\ gamePhase = "lobby"

\* C5 as written: the join_lobby attempt that follows the join which filled
\* the lobby is rejected with the 'Lobby is full' reason.
JustFilled ==
    /\ IsJoin(last) /\ GameStarted(out)
    /\ gamePhase = "playing" /\ Len(players) = maxPlayers
    /\ resets = 0 /\ lobbyLeak = 0 /\ gameLeak = 0

C5_Original ==
    [][(JustFilled /\ IsJoin(last') /\ ValidWallet(last'.wallet)) =>
        (JoinRejected(out') /\ out'[1].reason = "Lobby is full. You can spectate!")]_vars

\* C5 amended: the join that fills the lobby starts the game and empties the
\* lobby, so a join_lobby with a valid wallet handled in phase playing is
\* rejected with the 'Game in progress' reason and enters nothing, and no
\* join_lobby is ever answered with the 'Lobby is full' reason.
C5_FullLobbyStartsGame ==
    /\ [](\A i \in DOMAIN out :
            out[i].type = "lobby_joined" => out[i].reason # "Lobby is full. You can spectate!")
    /\ [][(IsJoin(last') /\ gamePhase = "playing" /\ ValidWallet(last'.wallet)) =>
            /\ JoinRejected(out')
            /\ out'[1].reason = "Game in progress. You can spectate!"
            /\ out'[1].to = {last'.id}
            /\ lobby' = lobby /\ lobby = <<>> /\ players' = players
         ]_vars

\* a fourth connection is turned away from the game the other three started
C5_Witness ==
    /\ IsJoin(last) /\ JoinRejected(out)
    /\ out[1].reason = "Game in progress. You can spectate!"
    /\ gamePhase = "playing" /\ Len(players) = maxPlayers
    /\ ~Has(players, last.id) /\ ValidWallet(last.wallet)

\* C6 as written: a join_lobby handled while the phase is playing or results
\* is rejected with a reason and creates no lobby entry.
C6_JoinOnlyInLobbyPhase ==
    [][(IsJoin(last') /\ gamePhase # "lobby") =>
        (JoinRejected(out') /\ out'[1].reason # "" /\ lobby' = lobby)]_vars

\* C7: a rejected join_lobby changes no lobby, player, coin, phase or timer
\* state and sends one lobby_joined with success false and a reason, to the
\* requester alone; a missing or short address, a wallet that is in the lobby
\* and phase playing each reject.
C7_RejectedJoin ==
    [][(/\ IsJoin(last')
        /\ \/ JoinRejected(out')
           \/ ~ValidWallet(last'.wallet)
           \/ WalletInLobby(lobby, last'.wallet)
           \/ gamePhase = "playing") =>
        /\ JoinRejected(out')
        /\ out'[1].reason # "" /\ out'[1].to = {last'.id}
        /\ UNCHANGED <<lobby, players, pennies, spectators, gamePhase>>
        /\ TimersUnchanged
      ]_vars

\* an address one character short is refused while others wait in the lobby
C7_Witness ==
    /\ IsJoin(last) /\ JoinRejected(out)
    /\ out[1].reason = "Invalid wallet address"
    /\ WalletLength(last.wallet) = MinWalletLength - 1
    /\ Len(lobby) = 2 /\ ~Has(lobby, last.id)

\* C8: no two lobby entries carry the same wallet, and a join_lobby with a
\* wallet some lobby entry carries is rejected, the sender's own entry included.
C8_NoDuplicateWallet ==
    /\ [](\A i, j \in DOMAIN lobby :
            i # j => lobby[i].walletAddress # lobby[j].walletAddress)
    /\ [][(IsJoin(last') /\ WalletInLobby(lobby, last'.wallet)) =>
            (JoinRejected(out') /\ lobby' = lobby)]_vars

\* a connection is refused the wallet it already holds in the lobby, after
\* another connection was refused that wallet too
C8_Witness ==
    /\ IsJoin(last) /\ JoinRejected(out)
    /\ out[1].reason = "Wallet already in lobby"
    /\ Has(lobby, last.id) /\ Get(lobby, last.id).walletAddress = last.wallet
    /\ Len(lobby) = 2 /\ lobby[2].id = last.id

\* C9 as written: the accepted join that brings the lobby to maxPlayers starts
\* the game in the same step: phase playing, lobby empty, no lobby countdown
\* left running, game_start listing exactly the entrants and totalPennies coins.
C9_FullLobbyStartsAtOnce ==
    [][(IsJoin(last') /\ JoinAccepted(out') /\ Len(Entered(lobby, last')) >= maxPlayers) =>
        /\ gamePhase' = "playing" /\ lobby' = <<>>
        /\ ~lobbyTimer' /\ lobbyLeak' = 0
        /\ \E i \in DOMAIN out' :
            /\ out'[i].type = "game_start"
            /\ Len(out'[i].players) = maxPlayers
            /\ Ids(out'[i].players) = Ids(Entered(lobby, last'))
            /\ out'[i].pennies = totalPennies
      ]_vars

\* C10 as written: every game start leaves exactly one player per lobby
\* entrant, each with score 0, and totalPennies coins, all uncollected.
C10_StartYieldsEntrants ==
    [][GameStarted(out') =>
        LET entrants == IF IsJoin(last') THEN Entered(lobby, last') ELSE lobby
        IN /\ Len(players') = Len(entrants)
           /\ Ids(players') = Ids(entrants)
           /\ \A k \in DOMAIN players' : players'[k].score = 0
           /\ Len(pennies') = totalPennies
           /\ \A p \in DOMAIN pennies' : ~pennies'[p]
      ]_vars

IsLobbyTick(e) == e.kind \in {"lobby_tick", "lobby_tick_leaked"}
IsMove(e) == e.kind = "player_move"
GameEnded(o) == \E i \in DOMAIN o : o[i].type = "game_end"
Sent(o, type) == \E i \in DOMAIN o : o[i].type = type /\ o[i].to = connected
\* the lobby countdown has counted its full duration
LobbyExpired == lobbyElapsed >= lobbyTimerSeconds

\* C11: a lobby countdown tick at expiry with fewer than 2 lobby entries keeps
\* the phase (lobby stays lobby), the lobby and the players, restarts the
\* countdown from its full duration and broadcasts lobby_message without
\* starting a game; at expiry with 2 or more entries it starts the game; and
\* a tick starts a game only at expiry, from 2 or more entries, into 2 or
\* more players.
C11_LobbyExpiry ==
    [][IsLobbyTick(last') =>
        /\ (LobbyExpired /\ Len(lobby) < 2) =>
              /\ gamePhase' = gamePhase
              /\ lobby' = lobby /\ players' = players
              /\ lobbyElapsed' = 0
              /\ lobbyTimer' = lobbyTimer /\ lobbyLeak' = lobbyLeak
              /\ Sent(out', "lobby_message")
              /\ ~GameStarted(out')
        /\ (LobbyExpired /\ Len(lobby) >= 2) =>
              /\ gamePhase' = "playing" /\ Sent(out', "game_start")
              /\ Ids(lobby) \subseteq Ids(players') /\ lobby' = <<>>
        /\ GameStarted(out') =>
              (LobbyExpired /\ Len(lobby) >= 2 /\ Len(players') >= 2)
      ]_vars

\* the countdown has run out on a single entrant and has started again
C11_Witness ==
    /\ last.kind = "lobby_tick" /\ Sent(out, "lobby_message")
    /\ Len(lobby) = 1 /\ gamePhase = "lobby"
    /\ lobbyTimer /\ lobbyElapsed = 0 /\ players = <<>>

\* C12 as written: when a game starts no lobby countdown is left that could
\* tick, and when a game ends no game countdown is left that could tick.
C12_TimersCancelled ==
    /\ [][GameStarted(out') => (~lobbyTimer' /\ lobbyLeak' = 0)]_vars
    /\ [][GameEnded(out') => (~gameTimer' /\ gameLeak' = 0)]_vars

\* C13 as written: a player_move from a connection without a player record
\* changes no state and causes no player_moved to reach any connection.
C13_MoveWithoutPlayer ==
    [][(IsMove(last') /\ ~Has(players, last'.id)) =>
        /\ UNCHANGED <<lobby, players, spectators, pennies, gamePhase>>
        /\ \A i \in DOMAIN out' : out'[i].type = "player_moved" => out'[i].to = {}
      ]_vars

\* C14 as written: a collect_penny or player_move from a connection that is
\* in the spectator set flips no coin and changes no score and no position.
C14_SpectatorIgnored ==
    [][((IsCollect(last') \/ IsMove(last')) /\ last'.id \in spectators) =>
        (pennies' = pennies /\ players' = players)]_vars

\* C15 as written: a collect_penny handled while the phase is lobby or
\* results flips no coin, changes no score and emits nothing.
C15_CollectOnlyWhilePlaying ==
    [][(IsCollect(last') /\ gamePhase # "playing") =>
        (pennies' = pennies /\ players' = players /\ out' = <<>>)]_vars

\* the game_end message among the messages o
GameEnd(o) == o[CHOOSE i \in DOMAIN o : o[i].type = "game_end"]
Abs(x) == IF x < 0 THEN -x ELSE x
RECURSIVE SumPercent(_)
SumPercent(w) == IF w = <<>> THEN 0 ELSE Head(w).rewardPercent + SumPercent(Tail(w))

IsReset(e) == e.kind = "reset"
IsDisconnect(e) == e.kind = "disconnect"

\* C18: every reset leaves no active player, no coin and no spectator, sets
\* the phase to lobby and broadcasts game_reset to every connection.
C18_ResetClears ==
    [][IsReset(last') =>
        /\ players' = <<>> /\ pennies' = <<>> /\ spectators' = {}
        /\ gamePhase' = "lobby"
        /\ out' = <<[type |-> "game_reset", to |-> connected]>>
      ]_vars

\* the reset has fired after a round that had winners, while the payout of
\* that round is still awaited
C18_Witness ==
    /\ IsReset(last) /\ Sent(out, "game_reset")
    /\ 3 \in connected /\ payouts = 1
    /\ players = <<>> /\ pennies = <<>> /\ spectators = {} /\ gamePhase = "lobby"

\* C20: a disconnect, in every phase, removes the connection id from the
\* lobby, the active players and the spectators and nothing else from them,
\* keeps the phase, and broadcasts lobby_update with the lobby as it is now
\* and player_left with that id; no id that is not connected is in any of
\* the three.
C20_DisconnectRemoves ==
    /\ [](\A c \in Conns \ connected :
            ~Has(lobby, c) /\ ~Has(players, c) /\ c \notin spectators)
    /\ [][IsDisconnect(last') =>
            LET c == last'.id
            IN /\ lobby' = SelectSeq(lobby, LAMBDA e : e.id # c)
               /\ players' = SelectSeq(players, LAMBDA e : e.id # c)
               /\ spectators' = spectators \ {c}
               /\ ~Has(lobby', c) /\ ~Has(players', c) /\ c \notin spectators'
               /\ gamePhase' = gamePhase
               /\ Len(out') = 2
               /\ out'[1].type = "lobby_update" /\ out'[1].to = connected'
               /\ out'[1].lobbyState = getLobbyState(lobby', gamePhase')
               /\ out'[2].type = "player_left" /\ out'[2].to = connected'
               /\ out'[2].playerId = c
         ]_vars

\* the last active player has left the running game
C20_Witness ==
    /\ IsDisconnect(last) /\ Len(out) = 2
    /\ gamePhase = "playing" /\ gameTimer
    /\ players = <<>> /\ connected # {}

ClientEvents ==
    {"connection", "disconnect", "join_lobby", "join_spectator", "player_move",
     "collect_penny"}

\* C19: every game end is followed by a reset into phase lobby, whether or
\* not the payout ever reports; only the reset timeout takes a pending reset
\* away, no client event changes the pending resets; and a join_lobby with a
\* valid wallet that is not in the lobby, handled in phase lobby while a
\* payout is still awaited, is accepted.
C19_PayoutDoesNotBlock ==
    /\ GameEnded(out) ~> (IsReset(last) /\ gamePhase = "lobby")
    /\ [][resets' < resets => IsReset(last')]_vars
    /\ [][last'.kind \in ClientEvents => resets' = resets]_vars
    /\ [][(/\ IsJoin(last') /\ payouts > 0 /\ gamePhase = "lobby"
            /\ ValidWallet(last'.wallet) /\ ~WalletInLobby(lobby, last'.wallet)) =>
            (JoinAccepted(out') /\ Has(lobby', last'.id) /\ payouts' = payouts)]_vars

\* after the reset a player of the round that ended is back in the lobby
\* while the payout of that round has not reported
C19_Witness ==
    /\ IsJoin(last) /\ JoinAccepted(out) /\ Has(lobby, last.id)
    /\ gamePhase = "lobby" /\ players = <<>>
    /\ payouts = 1 /\ resets = 0

IsGameTick(e) == e.kind \in {"game_tick", "game_tick_leaked"}
\* the game countdown has counted its full duration
GameExpired == gameElapsed >= gameDurationSeconds

\* C21: a disconnect in phase playing, of the last player too, keeps the
\* phase, the game countdown and its reading, every coin's flag and every
\* other player's record, sends no game_end and schedules no reset; a game_end
\* is sent only by a tick of the game countdown at its expiry.
C21_LeaveKeepsRound ==
    /\ [][(IsDisconnect(last') /\ gamePhase = "playing") =>
            /\ gamePhase' = "playing"
            /\ UNCHANGED <<gameTimer, gameLeak, gameElapsed, resets, payouts>>
            /\ pennies' = pennies
            /\ \A k \in DOMAIN players :
                  players[k].id # last'.id =>
                     (Has(players', players[k].id)
                        /\ Get(players', players[k].id) = players[k])
            /\ ~GameEnded(out')
         ]_vars
    /\ [][GameEnded(out') => (IsGameTick(last') /\ GameExpired)]_vars

\* the last active player has left a running game in which a coin is
\* collected: the coin stays collected, the countdown goes on
C21_Witness ==
    /\ IsDisconnect(last) /\ gamePhase = "playing" /\ gameTimer
    /\ players = <<>> /\ ~GameExpired
    /\ \E p \in DOMAIN pennies : pennies[p]
    /\ \E p \in DOMAIN pennies : ~pennies[p]

\* the gateway call has returned in this step and the coordinator has reported
GatewayReturned == payoutCall.pc # "done" /\ payoutCall'.pc = "done"
\* the wallets of the first min(3, N) winners of the call, in place order
Payees(call) == [j \in 1..NumWinners(call.winners) |-> call.winners[j].walletAddress]

\* C22: a gateway call that has passed the balance test calls sendSOL once
\* for each of the first min(3, N) winners, in place order, whatever the
\* earlier payments came to, and returns, and the coordinator broadcasts, one
\* result per such winner in place order with that payment's outcome.
C22_EveryWinnerAttempted ==
    /\ [](payoutCall.pc = "send" =>
            /\ payoutCall.i <= NumWinners(payoutCall.winners)
            /\ Len(payoutCall.results) = payoutCall.i - 1
            /\ payoutCall.sent = SubSeq(Payees(payoutCall), 1, payoutCall.i - 1))
    /\ [][(GatewayReturned /\ payoutCall.pc = "send") =>
            LET call == payoutCall'
                res == call.result.results
            IN /\ call.sent = Payees(call)
               /\ Len(res) = NumWinners(call.winners)
               /\ \A j \in DOMAIN res :
                     /\ res[j].place = j
                     /\ res[j].wallet = call.winners[j].walletAddress
                     /\ res[j].coins = call.winners[j].score
                     /\ res[j].success = (res[j].error = "")
               /\ Len(out') = 1 /\ out'[1].type = "rewards_distributed"
               /\ out'[1].to = connected /\ out'[1].winners = res
         ]_vars

\* the first of three payments has failed, the second and the third are made
C22_Witness ==
    /\ payoutCall.pc = "done" /\ rewardWallet
    /\ Len(payoutCall.sent) = 3 /\ Len(payoutCall.result.results) = 3
    /\ ~payoutCall.result.results[1].success
    /\ payoutCall.result.results[1].error = "Transaction failed on chain"
    /\ payoutCall.result.results[2].success
    /\ payoutCall.result.results[3].success

IsBalanceRead(e) == e.kind = "gateway_balance"

\* C23: with a reward wallet loaded, a balance below rewardPoolPerGame +
\* feeReserve makes the gateway return success false with an error and no
\* results, without a sendSOL call then or later, and the coordinator reports
\* it with the emit of its normal path.
C23_InsufficientBalance ==
    /\ [][(IsBalanceRead(last') /\ rewardWallet
            /\ payoutCall'.balance < rewardPoolPerGame + feeReserve) =>
            /\ payoutCall'.pc = "done"
            /\ ~payoutCall'.result.success
            /\ payoutCall'.result.results = <<>>
            /\ "error" \in DOMAIN payoutCall'.result /\ payoutCall'.result.error # ""
            /\ payoutCall'.sent = <<>>
            /\ out' = <<RewardsReport(payoutCall'.result, connected)>>
            /\ out'[1].proportional /\ ~out'[1].success
         ]_vars
    /\ [][payoutCall.pc = "done" => payoutCall' = payoutCall]_vars

\* a wallet that holds the pool but not the fee reserve pays none of three winners
C23_Witness ==
    /\ IsBalanceRead(last) /\ rewardWallet
    /\ payoutCall.balance = rewardPoolPerGame
    /\ payoutCall.pc = "done" /\ payoutCall.sent = <<>>
    /\ Len(payoutCall.winners) = 3
    /\ payouts = 0

\* C24 as written: a rewards_distributed broadcast after which some winner of
\* the call is unpaid carries a reason for it, in that winner's entry or in
\* the broadcast itself.
C24_FailureHasReason ==
    [][GatewayReturned =>
        LET msg == out'[1]
            ws == payoutCall'.winners
        IN \/ "error" \in DOMAIN msg /\ msg.error # ""
           \/ /\ Len(msg.winners) = NumWinners(ws)
              /\ \A j \in DOMAIN msg.winners :
                    msg.winners[j].success \/ msg.winners[j].error # ""
      ]_vars

\* C25 as written: no join_lobby, player_move or collect_penny, whatever its
\* payload, leaves an exception uncaught in its handler.
C25_NoHandlerThrows == ~crashed

\* C26 as written: in every step but a reset, a coin that is collected stays
\* a coin and stays collected.
C26_CollectedStaysCollected ==
    [][~IsReset(last') =>
        \A p \in DOMAIN pennies :
            pennies[p] => (p \in DOMAIN pennies' /\ pennies'[p])]_vars

InLobby(c) == Has(lobby, c)
IsPlayer(c) == Has(players, c)
IsSpectator(c) == c \in spectators

\* C27 as written: no connection id is in more than one of the lobby, the
\* active-player map and the spectator set.
C27_OneRole ==
    \A c \in Conns :
        /\ ~(InLobby(c) /\ IsPlayer(c))
        /\ ~(InLobby(c) /\ IsSpectator(c))
        /\ ~(IsPlayer(c) /\ IsSpectator(c))

\* C28 as written: a lobby_timer is broadcast only by a tick that finds the
\* phase lobby and at least one lobby entry.
C28_LobbyTimerOnlyInLobby ==
    [][(\E i \in DOMAIN out' : out'[i].type = "lobby_timer") =>
        (gamePhase = "lobby" /\ Len(lobby) >= 1)]_vars

\* C29: a join_lobby handled in phase lobby with a valid wallet that no lobby
\* entry carries, into a lobby that is not full, is accepted and entered,
\* whether or not its wallet played the round before and whether or not that
\* round's payout has reported; it starts the game exactly when it fills the
\* lobby.
C29_NoCooldown ==
    [][(/\ IsJoin(last') /\ gamePhase = "lobby"
        /\ ValidWallet(last'.wallet) /\ ~WalletInLobby(lobby, last'.wallet)
        /\ Len(lobby) < maxPlayers) =>
        /\ JoinAccepted(out')
        /\ GameStarted(out') = (Len(Entered(lobby, last')) >= maxPlayers)
        /\ IF GameStarted(out') THEN Has(players', last'.id) ELSE Has(lobby', last'.id)
      ]_vars

\* both players of the round that has ended are back in the lobby after the
\* reset, before that round's payout has reported
C29_Witness ==
    /\ IsJoin(last) /\ JoinAccepted(out)
    /\ gamePhase = "lobby" /\ Len(lobby) = 2 /\ lobby[2].id = last.id
    /\ payouts = 1 /\ resets = 0 /\ ~gameTimer

IsSpectate(e) == e.kind = "join_spectator"

\* C30: a join_spectator, in every phase and whatever the sender is already,
\* puts the sender into the spectator set, changes nothing else and answers
\* the sender alone with spectator_joined and the game state of that instant;
\* in phase lobby there is no player and no coin, so that state lists no
\* player and zero remaining coins.
C30_SpectateSucceeds ==
    /\ [](gamePhase = "lobby" => (players = <<>> /\ pennies = <<>>))
    /\ [][IsSpectate(last') =>
            /\ spectators' = spectators \cup {last'.id}
            /\ UNCHANGED <<lobby, players, pennies, gamePhase>>
            /\ Len(out') = 1
            /\ out'[1].type = "spectator_joined" /\ out'[1].to = {last'.id}
            /\ out'[1].gameState = getGameState(players, pennies, gamePhase)
            /\ gamePhase = "lobby" =>
                  /\ out'[1].gameState.players = <<>>
                  /\ out'[1].gameState.penniesRemaining = 0
         ]_vars

\* a connection that waits in the lobby after a round has ended asks to
\* spectate and gets the empty snapshot
C30_Witness ==
    /\ IsSpectate(last) /\ gamePhase = "lobby"
    /\ InLobby(last.id) /\ IsSpectator(last.id)
    /\ payouts = 1
    /\ out[1].gameState.players = <<>> /\ out[1].gameState.penniesRemaining = 0

\* the reward percentages of the winners w, by place
Percents(w) == [j \in DOMAIN w |-> w[j].rewardPercent]

Collected(o) == CHOOSE m \in {o[i] : i \in DOMAIN o} : m.type = "penny_collected"
\* the number of penny_collected broadcasts counted in sc
SumSent(sc) == SumScores([i \in DOMAIN sc |-> [score |-> sc[i]]])

\* C32: a penny_collected broadcast carries the score stored for the
\* collecting player once the collect is committed, one more than before it,
\* and the k-th such broadcast of a player in a round carries k: the carried
\* score is never more than the number of penny_collected broadcasts of the
\* round so far.
C32_ScoresCountUp ==
    [][(IsCollect(last') /\ Sent(out', "penny_collected")) =>
        /\ Collected(out').playerId = last'.id
        /\ Collected(out').playerScore = Get(players', last'.id).score
        /\ Collected(out').playerScore = Get(players, last'.id).score + 1
        /\ Collected(out').playerScore <= SumSent(sentCollected')
      ]_vars

\* the lobby countdown intervals that exist: the one behind this.lobbyTimer
\* and those whose handle was overwritten
LobbyCountdowns == Leak(lobbyLeak, lobbyTimer)

\* C33: at most one lobby countdown interval exists at any time.
C33_OneLobbyCountdown == LobbyCountdowns <= 1

\* the game countdown intervals that exist: the one behind this.gameTimer
\* and those whose handle was overwritten
GameCountdowns == Leak(gameLeak, gameTimer)

\* C34: a game countdown interval exists exactly while the phase is playing.
C34_GameTimerIffPlaying == (GameCountdowns > 0) <=> (gamePhase = "playing")

\* C35: game starts and game ends alternate.  this.gameTimer is set by
\* startGame and cleared by endGame alone, so it tells whether a game_start
\* is still without its game_end: no game_start is sent while it is set, and
\* no game_end is sent while it is not.
C35_StartsAndEndsAlternate ==
    [][/\ GameStarted(out') => ~gameTimer
       /\ GameEnded(out') => gameTimer
      ]_vars

\* C36: the deferred reset fires in phase results only.
C36_ResetOnlyInResults == [][IsReset(last') => gamePhase = "results"]_vars

\* the coins whose collected flag is set
CollectedCoins == {p \in DOMAIN pennies : pennies[p]}

\* C37: the scores of the active players sum to at most the number of
\* collected coins.
C37_ScoreConservation == SumScores(players) <= Cardinality(CollectedCoins)

\* C39: no two active players carry the same wallet address.
C39_PlayersDistinctWallets ==
    \A a, b \in DOMAIN players :
        players[a].walletAddress = players[b].walletAddress => a = b

\* C38: a join that is accepted and starts the game sends its lobby_joined
\* reply before the game_start broadcast.
C38_JoinedBeforeStart ==
    [][(IsJoin(last') /\ JoinAccepted(out') /\ GameStarted(out')) =>
        \A i, j \in DOMAIN out' :
            (out'[i].type = "lobby_joined" /\ out'[j].type = "game_start") => i < j
      ]_vars

\* the lamports of the payments listed in the results rs
RECURSIVE SumAmounts(_)
SumAmounts(rs) == IF rs = <<>> THEN 0 ELSE Head(rs).amount + SumAmounts(Tail(rs))

\* C40 as written: the amounts of the payments of one gateway call sum to
\* exactly rewardPoolPerGame.
C40_Original ==
    [][(GatewayReturned /\ payoutCall.pc = "send") =>
        SumAmounts(payoutCall'.result.results) = rewardPoolPerGame]_vars

\* C40 amended: each payment is its share of the pool cut down to whole
\* lamports, so the payments of one gateway call sum to at most
\* rewardPoolPerGame and fall short of it by less than one lamport per
\* payment.
C40_PaidWithinPool ==
    [][(GatewayReturned /\ payoutCall.pc = "send") =>
        LET paid == SumAmounts(payoutCall'.result.results)
        IN /\ paid <= rewardPoolPerGame
           /\ rewardPoolPerGame - paid < NumWinners(payoutCall'.winners)
           /\ \A j \in DOMAIN payoutCall'.result.results :
                 payoutCall'.result.results[j].amount >= 0
      ]_vars

\* three winners of equal score are paid a third each, cut to whole lamports:
\* two lamports of the pool stay unpaid
C40_Witness ==
    /\ payoutCall.pc = "done"
    /\ Len(payoutCall.result.results) = 3
    /\ \A j \in 1..3 : payoutCall.result.results[j].amount = 16666666
    /\ SumAmounts(payoutCall.result.results) = rewardPoolPerGame - 2

====
